---------------------------- MODULE Spec2Model ----------------------------
(***************************************************************************)
(* A model of the solid-rocket-motor solver's core:                        *)
(*   - the analytic BATES grain      (srm_solver/models/motor/bates.py)    *)
(*   - the isentropic nozzle flow    (srm_solver/functions/                *)
(*     and the correction factors     isentropic_flow.py)                  *)
(*   - the FMM grain segment         (rocketsolver/models/propulsion/      *)
(*                                    grain/fmm/__init__.py)               *)
(*                                                                         *)
(* Every component has its own specification (SpecBates, SpecFlow,         *)
(* SpecCorr, SpecFMM); a specification leaves the variables of the other   *)
(* components at their idle value.                                         *)
(*                                                                         *)
(* Numbers.  The code computes in floating point; the model computes in    *)
(* exact integers on a grid:                                               *)
(*   - a BATES length is an integer number of length units (one unit is    *)
(*     5 mm, so the segment 115 mm / 45 mm / 200 mm is 23 / 9 / 40 and     *)
(*     its wall thickness 35 mm is 7);                                     *)
(*   - a burn area is carried as N with area = (pi/2) * N, a propellant    *)
(*     volume as N with volume = (pi/4) * N, a circle area as N with       *)
(*     area = (pi/4) * N: the factor of pi is common to every term of      *)
(*     the code's expression and changes neither a sign nor a zero.        *)
(*   - a float of the nozzle flow is a fixed-point number: the integer v   *)
(*     stands for v / Scale, products and quotients round down, and the    *)
(*     float that is not a number is carried apart (NaN);                  *)
(*   - a float of the FMM unit conversions is a binary floating-point      *)
(*     number of Precision bits, every operation rounded to nearest;       *)
(*   - a ratio of specific heats k is a fraction <<kn, kd>> with kn > kd.  *)
(***************************************************************************)
EXTENDS Integers, Sequences, FiniteSets, TLC

VARIABLES
    bates,      \* the Bates object: the fields set by Bates.__init__
    seg,        \* the FMMGrainSegment object: its fields and caches
    solver,     \* the exit-Mach root search in progress (get_exit_mach)
    call,       \* the call in progress or last completed: operation, arguments,
                \* outcome
    hist        \* what has happened to the FMMGrainSegment object so far: the
                \* map_dim it was constructed with, whether validate() has
                \* succeeded, how often each cached stage was computed,
                \* and where the argument of the last call came from

vars == <<bates, seg, solver, call, hist>>

(***************************************************************************)
(* Bounds of the model.                                                    *)
(***************************************************************************)
MaxSegments == 2
MaxWeb == 8
MaxT == 2
MaxFev == 3
MaxValue == 2
Precision == 4
MaxSeries == 3
Scale == 100

(***************************************************************************)
(* Outcomes of a call: a returned value or a raised exception.             *)
(***************************************************************************)
Return(v) == [kind |-> "return", v |-> v]

Raise(e) == [kind |-> "raise", v |-> e]

\* The outcome of a call that has not ended yet.
Running == [kind |-> "running", v |-> 0]

NoCall == [op |-> "none", args |-> <<>>, out |-> Return(0)]

Idle == [unit |-> "idle"]

(***************************************************************************)
(*                               BATES                                     *)
(***************************************************************************)

\* Dimensions a Bates object is constructed with, in length units.
OuterDiameters == {22, 23}

CoreDiameters == {9, 15}

SegmentLengths == {10, 40}

Webs == 0..MaxWeb

\* Python's range(n) as the 0-based indices 0..n-1; a sequence holds index i
\* at position i+1.
Range(n) == 0..(n - 1)

\* Bates.__init__: stores its arguments.
BatesObjects ==
    { [segment_count |-> n, outer_diameter |-> d, core_diameter |-> c,
       segment_length |-> l] :
        n \in 1..MaxSegments, d \in OuterDiameters,
        c \in UNION { [1..m -> CoreDiameters] : m \in 1..MaxSegments },
        l \in UNION { [1..m -> SegmentLengths] : m \in 1..MaxSegments } }

BatesInit ==
    /\ bates \in { b \in BatesObjects :
                     /\ Len(b.core_diameter) = b.segment_count
                     /\ Len(b.segment_length) = b.segment_count }
    /\ seg = Idle
    /\ solver = Idle
    /\ call = NoCall
    /\ hist = Idle

\* Bates.get_burn_area_per_segment; the result N stands for (pi/2) * N.
\* The guard 0.5 * (D_grain - D_core[i]) >= web is D_grain - D_core[i] >= 2 * web.
get_burn_area_per_segment(self, segment_index, web_thickness) ==
    LET D_grain == self.outer_diameter
        D_core == self.core_diameter[segment_index + 1]
        L_grain == self.segment_length[segment_index + 1]
    IN  IF D_grain - D_core >= 2 * web_thickness
        THEN (D_grain * D_grain
                - (D_core + 2 * web_thickness) * (D_core + 2 * web_thickness))
             + 2 * ((L_grain - 2 * web_thickness) * (D_core + 2 * web_thickness))
        ELSE 0

\* np.sum of a sequence of numbers.
RECURSIVE np_sum(_)
np_sum(s) == IF s = <<>> THEN 0 ELSE s[1] + np_sum(Tail(s))

\* Bates.get_burn_area(x): the sum over range(segment_count).
get_burn_area(self, x) ==
    np_sum([n \in 1..self.segment_count |->
                get_burn_area_per_segment(self, n - 1, x)])

\* get_propellant_volume_per_segment without its exhaustion guard (the closed
\* form is returned for every web distance).
get_propellant_volume_per_segment_unguarded(self, x, j) ==
    LET D_grain == self.outer_diameter
        D_core == self.core_diameter[j + 1]
        L_grain == self.segment_length[j + 1]
    IN  (D_grain * D_grain - (D_core + 2 * x) * (D_core + 2 * x))
        * (L_grain - 2 * x)

\* Bates.get_propellant_volume_per_segment; the result N stands for (pi/4) * N.
get_propellant_volume_per_segment(self, x, j) ==
    LET D_grain == self.outer_diameter
        D_core == self.core_diameter[j + 1]
        L_grain == self.segment_length[j + 1]
    IN  IF D_grain - D_core >= 2 * x
        THEN (D_grain * D_grain - (D_core + 2 * x) * (D_core + 2 * x))
             * (L_grain - 2 * x)
        ELSE 0

\* Bates.get_propellant_volume(x): the sum over range(segment_count).
get_propellant_volume(self, x) ==
    np_sum([n \in 1..self.segment_count |->
                get_propellant_volume_per_segment(self, x, n - 1)])

\* utils.geometric.get_circle_area(diameter); the result N stands for (pi/4) * N.
get_circle_area(diameter) == diameter * diameter

\* The call self.get_burn_area(*args) as Python binds it: get_burn_area takes
\* one positional argument besides self.
call_get_burn_area(self, args) ==
    IF Len(args) = 1
    THEN Return(get_burn_area(self, args[1]))
    ELSE Raise("TypeError")

\* The loop "for k in range(j + 1)" of get_mass_flux_per_segment, run from 0 to
\* k: total_grain_Ab[j, i] after it, or the exception a call raised.
RECURSIVE total_grain_Ab(_, _, _)
total_grain_Ab(self, x_i, k) ==
    IF k < 0
    THEN Return(0)
    ELSE LET before == total_grain_Ab(self, x_i, k - 1)
             area == call_get_burn_area(self, <<x_i, k>>)
         IN  IF before.kind = "raise" THEN before
             ELSE IF area.kind = "raise" THEN area
             ELSE Return(before.v + area.v)

\* One pass of the body of the loops over j and i: segment_mass_flux[j, i],
\* carried as the mass generation rate (in pi/2) over the flow area (in pi/4).
mass_flux_cell(self, burn_rate, propellant_density, x, j, i) ==
    IF i >= Len(x)
    THEN Raise("IndexError")
    ELSE LET Ab == total_grain_Ab(self, x[i + 1], j)
         IN  IF Ab.kind = "raise" THEN Ab
             ELSE Return([mass_rate |-> Ab.v * propellant_density * burn_rate[i + 1],
                          flow_area |-> get_circle_area(
                                            self.core_diameter[j + 1] + x[i + 1])])

\* An entry np.zeros left untouched.
ZeroFlux == [mass_rate |-> 0, flow_area |-> 1]

\* Bates.get_mass_flux_per_segment: the segment_count by np.size(x) array, or
\* the first exception raised in loop order (j outer, i inner).
get_mass_flux_per_segment(self, burn_rate, propellant_density, x) ==
    LET cell(j, i) == mass_flux_cell(self, burn_rate, propellant_density, x, j, i)
        visited == Range(self.segment_count) \X Range(Len(burn_rate))
        raised == { p \in visited : cell(p[1], p[2]).kind = "raise" }
        first == CHOOSE p \in raised : \A q \in raised :
                     p[1] < q[1] \/ (p[1] = q[1] /\ p[2] <= q[2])
    IN  IF raised # {}
        THEN cell(first[1], first[2])
        ELSE Return([j \in Range(self.segment_count) |->
                        [i \in Range(Len(x)) |->
                            IF i < Len(burn_rate) THEN cell(j, i).v ELSE ZeroFlux]])

\* The time series a caller passes to get_mass_flux_per_segment: burn rate and
\* web distance, one entry per time step.
BurnRates == {1, 3}

FluxWebs == {0, 7}

Densities == {2}

\* The thresholds of get_burn_profile, 1.02 and 0.98, in hundredths.
RegressiveAbove == 102

ProgressiveBelow == 98

\* Bates.get_burn_profile with '>=' for its first test (a ratio of exactly
\* 1.02 counts as regressive).
get_burn_profile_inclusive(self, A_burn) ==
    IF A_burn = <<>> THEN Raise("IndexError")
    ELSE IF A_burn[Len(A_burn)] = 0 THEN Raise("ZeroDivisionError")
    ELSE IF 100 * A_burn[1] >= RegressiveAbove * A_burn[Len(A_burn)]
         THEN Return("regressive")
    ELSE IF 100 * A_burn[1] < ProgressiveBelow * A_burn[Len(A_burn)]
         THEN Return("progressive")
    ELSE Return("neutral")

\* Bates.get_burn_profile(A_burn).  A_burn[0] is the first and A_burn[-1] the
\* last element of the list; an empty list has neither (IndexError) and a last
\* element 0 is a division by zero.  The elements are non-negative integers, on
\* which the float quotient compares with 1.02 and 0.98 as the exact quotient
\* does: A_burn[0] / A_burn[-1] > 1.02 is 100 * A_burn[0] > 102 * A_burn[-1].
get_burn_profile(self, A_burn) ==
    IF A_burn = <<>> THEN Raise("IndexError")
    ELSE IF A_burn[Len(A_burn)] = 0 THEN Raise("ZeroDivisionError")
    ELSE IF 100 * A_burn[1] > RegressiveAbove * A_burn[Len(A_burn)]
         THEN Return("regressive")
    ELSE IF 100 * A_burn[1] < ProgressiveBelow * A_burn[Len(A_burn)]
         THEN Return("progressive")
    ELSE Return("neutral")

\* Burn areas of a series handed to get_burn_profile.
BurnAreas == {0, 49, 50, 51, 97, 98, 100, 102, 103}

TimeSeries(S) == UNION { [1..n -> S] : n \in 0..MaxT }

BurnAreaPerSegmentCall ==
    \E i \in Range(bates.segment_count), w \in Webs :
        /\ call' = [op |-> "get_burn_area_per_segment", args |-> <<i, w>>,
                    out |-> Return(get_burn_area_per_segment(bates, i, w))]
        /\ UNCHANGED <<bates, seg, solver, hist>>

BurnAreaCall ==
    \E x \in Webs :
        /\ call' = [op |-> "get_burn_area", args |-> <<x>>,
                    out |-> Return(get_burn_area(bates, x))]
        /\ UNCHANGED <<bates, seg, solver, hist>>

PropellantVolumePerSegmentCall ==
    \E x \in Webs, j \in Range(bates.segment_count) :
        /\ call' = [op |-> "get_propellant_volume_per_segment", args |-> <<x, j>>,
                    out |-> Return(get_propellant_volume_per_segment(bates, x, j))]
        /\ UNCHANGED <<bates, seg, solver, hist>>

PropellantVolumeCall ==
    \E x \in Webs :
        /\ call' = [op |-> "get_propellant_volume", args |-> <<x>>,
                    out |-> Return(get_propellant_volume(bates, x))]
        /\ UNCHANGED <<bates, seg, solver, hist>>

MassFluxPerSegmentCall ==
    \E burn_rate \in TimeSeries(BurnRates), x \in TimeSeries(FluxWebs),
       propellant_density \in Densities :
        /\ Len(burn_rate) = Len(x)
        /\ call' = [op |-> "get_mass_flux_per_segment",
                    args |-> <<burn_rate, propellant_density, x>>,
                    out |-> get_mass_flux_per_segment(bates, burn_rate,
                                                      propellant_density, x)]
        /\ UNCHANGED <<bates, seg, solver, hist>>

BurnProfileCall ==
    \E A_burn \in TimeSeries(BurnAreas) :
        /\ call' = [op |-> "get_burn_profile", args |-> <<A_burn>>,
                    out |-> get_burn_profile(bates, A_burn)]
        /\ UNCHANGED <<bates, seg, solver, hist>>

BatesNext ==
    \/ BurnAreaPerSegmentCall
    \/ BurnAreaCall
    \/ PropellantVolumePerSegmentCall
    \/ PropellantVolumeCall
    \/ MassFluxPerSegmentCall
    \/ BurnProfileCall

SpecBates == BatesInit /\ [][BatesNext]_vars

(***************************************************************************)
(* Claims about the BATES grain.                                           *)
(***************************************************************************)

\* The radial wall thickness of segment i is reached or passed at web w:
\* w >= 0.5 * (outer_diameter - core_diameter[i]).
RadiallyExhausted(self, i, w) ==
    2 * w >= self.outer_diameter - self.core_diameter[i + 1]

\* C1: for every segment i and every web distance web >= 0.5 * (outer_diameter -
\* core_diameter[i]), equality included, get_burn_area_per_segment(i, web)
\* returns 0, and get_burn_area returns 0 when every segment is in that state.
C1_BurnAreaZeroOnceExhausted ==
    /\ (call.op = "get_burn_area_per_segment"
            /\ RadiallyExhausted(bates, call.args[1], call.args[2]))
        => call.out = Return(0)
    /\ (call.op = "get_burn_area"
            /\ \A i \in Range(bates.segment_count) :
                   RadiallyExhausted(bates, i, call.args[1]))
        => call.out = Return(0)

\* The per-segment volumes of segments 0..n-1 at web x, added up.
RECURSIVE SumOfSegmentVolumes(_, _, _)
SumOfSegmentVolumes(self, x, n) ==
    IF n = 0 THEN 0
    ELSE SumOfSegmentVolumes(self, x, n - 1)
         + get_propellant_volume_per_segment(self, x, n - 1)

RECURSIVE UpstreamBurnArea(_, _, _)
UpstreamBurnArea(self, w, j) ==
    IF j < 0 THEN 0
    ELSE UpstreamBurnArea(self, w, j - 1) + get_burn_area_per_segment(self, j, w)

\* C10: get_mass_flux_per_segment(burn_rate, propellant_density, x) completes
\* with a segment_count by len(x) result whose entry [j, i] is the burn area of
\* segments 0..j at x[i], times propellant_density, times burn_rate[i], over
\* the core cross-section of segment j at x[i].
C10_MassFluxAccumulatesUpstream ==
    call.op = "get_mass_flux_per_segment"
    => /\ call.out.kind = "return"
       /\ DOMAIN call.out.v = Range(bates.segment_count)
       /\ \A j \in Range(bates.segment_count) :
             /\ DOMAIN call.out.v[j] = Range(Len(call.args[3]))
             /\ \A i \in Range(Len(call.args[3])) :
                   call.out.v[j][i] =
                     [mass_rate |-> UpstreamBurnArea(bates, call.args[3][i + 1], j)
                                    * call.args[2] * call.args[1][i + 1],
                      flow_area |-> get_circle_area(
                                        bates.core_diameter[j + 1]
                                        + call.args[3][i + 1])]

\* C11: get_burn_profile(A_burn) classifies by ratio = A_burn[0] / A_burn[-1]
\* for every series with a positive last element: it returns 'regressive'
\* exactly when ratio > 1.02, 'progressive' exactly when ratio < 0.98 and
\* 'neutral' for every ratio in [0.98, 1.02], both bounds included; [100, 100]
\* is neutral, [103, 100] regressive, [97, 100] progressive.
C11_BurnProfileByRatio ==
    (/\ call.op = "get_burn_profile"
     /\ call.args[1] # <<>>
     /\ call.args[1][Len(call.args[1])] > 0)
    => LET first == call.args[1][1]
           last == call.args[1][Len(call.args[1])]
       IN  /\ call.out.kind = "return"
           /\ call.out.v \in {"regressive", "progressive", "neutral"}
           /\ call.out.v = "regressive" <=> 100 * first > 102 * last
           /\ call.out.v = "progressive" <=> 100 * first < 98 * last
           /\ call.out.v = "neutral"
                <=> (98 * last <= 100 * first /\ 100 * first <= 102 * last)
           /\ call.args[1] = <<100, 100>> => call.out.v = "neutral"
           /\ call.args[1] = <<103, 100>> => call.out.v = "regressive"
           /\ call.args[1] = <<97, 100>> => call.out.v = "progressive"

\* C11's case: a series whose ratio is exactly 1.02 has been classified, and
\* it is neutral.
C11_Witness ==
    /\ call.op = "get_burn_profile"
    /\ call.args[1] = <<102, 100>>
    /\ call.out = Return("neutral")

\* Segment i is burned through axially at web w while its radial wall is not
\* passed: 2 * w >= segment_length[i] and 0.5 * (outer - core[i]) >= w.
AxiallyExhausted(self, i, w) ==
    /\ 2 * w >= self.segment_length[i + 1]
    /\ self.outer_diameter - self.core_diameter[i + 1] >= 2 * w

\* C15: for every segment with 0 < core_diameter < outer_diameter and
\* length > 0 and every web >= 0, get_burn_area_per_segment and
\* get_propellant_volume_per_segment return a value >= 0, and once the segment
\* is burned through axially (2 * web >= length) while the radial condition
\* 0.5 * (outer - core) >= web still holds, both return 0.
C15_AreaAndVolumeNeverNegative ==
    /\ call.op = "get_burn_area_per_segment"
        => /\ call.out.kind = "return"
           /\ call.out.v >= 0
           /\ AxiallyExhausted(bates, call.args[1], call.args[2])
                => call.out.v = 0
    /\ call.op = "get_propellant_volume_per_segment"
        => /\ call.out.kind = "return"
           /\ call.out.v >= 0
           /\ AxiallyExhausted(bates, call.args[2], call.args[1])
                => call.out.v = 0

(***************************************************************************)
(*                        ISENTROPIC NOZZLE FLOW                           *)
(***************************************************************************)

\* A float: a fixed-point number, or not a number.
Float(v) == [nan |-> FALSE, v |-> v]

NaN == [nan |-> TRUE, v |-> 0]

\* IEEE arithmetic and comparison: not-a-number propagates through + and *,
\* and every ordered comparison with it is false.
FloatAdd(a, b) == IF a.nan \/ b.nan THEN NaN ELSE Float(a.v + b.v)

FixMul(a, b) == (a * b) \div Scale

FloatMul(a, b) == IF a.nan \/ b.nan THEN NaN ELSE Float(FixMul(a.v, b.v))

FloatLe(a, b) == ~a.nan /\ ~b.nan /\ a.v <= b.v

FloatGe(a, b) == ~a.nan /\ ~b.nan /\ a.v >= b.v

\* n ** p for integers.
RECURSIVE IntPow(_, _)
IntPow(n, p) == IF p = 0 THEN 1 ELSE n * IntPow(n, p - 1)

\* x ** p for a fixed-point x and an integer p >= 0.
RECURSIVE FixPowInt(_, _)
FixPowInt(x, p) == IF p = 0 THEN Scale ELSE FixMul(x, FixPowInt(x, p - 1))

\* The largest r in lo..hi with r ** q <= t, by bisection.
RECURSIVE LargestRoot(_, _, _, _)
LargestRoot(lo, hi, t, q) ==
    IF lo >= hi THEN lo
    ELSE LET mid == (lo + hi + 1) \div 2
         IN  IF IntPow(mid, q) <= t
             THEN LargestRoot(mid, hi, t, q)
             ELSE LargestRoot(lo, mid - 1, t, q)

\* x ** (1/q) for a fixed-point x >= 0, rounded down.
FixRoot(x, q) ==
    LargestRoot(0, IF x > Scale THEN x ELSE Scale, x * IntPow(Scale, q - 1), q)

\* x ** (p/q) for a fixed-point x >= 0.
FixPow(x, p, q) == FixPowInt(FixRoot(x, q), p)

\* np.sqrt of a float: not a number below zero (numpy warns and goes on).
np_sqrt(x) == IF x < 0 THEN NaN ELSE Float(FixRoot(x, 2))

\* A binary float: the number m * 2^e, with m = 0 (and e = 0) or
\* m of exactly Precision bits.  A double has 53 bits; the model's float has
\* Precision bits and no exponent range (nothing here comes near a double's).
BinaryFloat(m, e) == [m |-> m, e |-> e]

\* 2^n for n >= 0.
RECURSIVE TwoTo(_)
TwoTo(n) == IF n = 0 THEN 1 ELSE 2 * TwoTo(n - 1)

\* The float nearest to (a / b) * 2^e for a >= 0 and b > 0, ties to the even
\* mantissa (IEEE 754 round-to-nearest-even, the rounding of every float
\* operation of the code).
RECURSIVE fl_round(_, _, _)
fl_round(a, b, e) ==
    IF a = 0 THEN BinaryFloat(0, 0)
    ELSE IF a >= b * TwoTo(Precision) THEN fl_round(a, 2 * b, e + 1)
    ELSE IF a < b * TwoTo(Precision - 1) THEN fl_round(2 * a, b, e - 1)
    ELSE LET q == a \div b
             r == a % b
             m == IF 2 * r > b \/ (2 * r = b /\ q % 2 = 1) THEN q + 1 ELSE q
         IN  IF m = TwoTo(Precision)
             THEN BinaryFloat(TwoTo(Precision - 1), e + 1)
             ELSE BinaryFloat(m, e)

\* float(n) of a non-negative integer.
fl_from_int(n) == fl_round(n, 1, 0)

\* x / y in floats (y > 0).
fl_div(x, y) == fl_round(x.m, y.m, x.e - y.e)

\* x * y in floats.
fl_mul(x, y) == fl_round(x.m * y.m, 1, x.e + y.e)

\* 0.5 * x and x / 2: exact in binary floating point.
fl_half(x) == IF x.m = 0 THEN x ELSE BinaryFloat(x.m, x.e - 1)

\* x + y in floats.
fl_add(x, y) ==
    LET e == IF x.e < y.e THEN x.e ELSE y.e
    IN  fl_round(x.m * TwoTo(x.e - e) + y.m * TwoTo(y.e - e), 1, e)

\* np.mean of a non-empty float array: the elements are added up in array
\* order, every sum rounded, and the total is divided by the size.
RECURSIVE np_add_reduce(_, _)
np_add_reduce(acc, s) ==
    IF s = <<>> THEN acc ELSE np_add_reduce(fl_add(acc, s[1]), Tail(s))

np_mean(s) ==
    IF s = <<>> THEN NaN
    ELSE fl_div(np_add_reduce(BinaryFloat(0, 0), s), fl_from_int(Len(s)))

\* The closed form of get_expansion_ratio for a pressure ratio in fixed point:
\* (((k+1)/2) ** (1/(k-1)) * pressure_ratio ** (1/k)
\*   * ((k+1)/(k-1) * (1 - pressure_ratio ** ((k-1)/k))) ** 0.5) ** -1.
optimal_expansion_ratio(pressure_ratio, k) ==
    LET kn == k[1]
        kd == k[2]
        a == FixPow((Scale * (kn + kd)) \div (2 * kd), kd, kn - kd)
        b == FixPow(pressure_ratio, kd, kn)
        c == FixRoot(FixMul((Scale * (kn + kd)) \div (kn - kd),
                            Scale - FixPow(pressure_ratio, kn - kd, kn)), 2)
    IN  (Scale * Scale) \div FixMul(FixMul(a, b), c)

\* E[i] of get_expansion_ratio, as the float stored in the array E.
expansion_ratio_at(Pe, P0_i, k, critical_pressure_ratio) ==
    IF Scale * Pe <= critical_pressure_ratio * P0_i
    THEN fl_round(optimal_expansion_ratio((Scale * Pe) \div P0_i, k), Scale, 0)
    ELSE fl_from_int(1)

\* get_expansion_ratio(Pe, P0, k, critical_pressure_ratio): np.mean of E.
get_expansion_ratio(Pe, P0, k, critical_pressure_ratio) ==
    np_mean([i \in 1..Len(P0) |->
                expansion_ratio_at(Pe, P0[i], k, critical_pressure_ratio)])

\* The unclamped coefficients of get_thrust_coeff: <<Cf, Cf_ideal>>.
thrust_coeff_unclamped(P0, P_exit, P_external, E, k, n_cf) ==
    LET kn == k[1]
        kd == k[2]
        P_r == (Scale * P_exit) \div P0
        \* 2 * (k ** 2) / (k - 1)
        a == (Scale * 2 * kn * kn) \div (kd * (kn - kd))
        \* (2 / (k + 1)) ** ((k + 1) / (k - 1))
        b == FixPow((Scale * 2 * kd) \div (kn + kd), kn + kd, kn - kd)
        \* 1 - P_r ** ((k - 1) / k)
        c == Scale - FixPow(P_r, kn - kd, kn)
        Cf_ideal == np_sqrt(FixMul(FixMul(a, b), c))
        Cf == FloatMul(
                  FloatAdd(Cf_ideal,
                           Float(FixMul(E, (Scale * (P_exit - P_external)) \div P0))),
                  Float(n_cf))
    IN  <<Cf, Cf_ideal>>

\* get_thrust_coeff: the coefficients, each replaced by 0 when "<= 0" is true.
get_thrust_coeff(P0, P_exit, P_external, E, k, n_cf) ==
    LET raw == thrust_coeff_unclamped(P0, P_exit, P_external, E, k, n_cf)
        Cf == IF FloatLe(raw[1], Float(0)) THEN Float(0) ELSE raw[1]
        Cf_ideal == IF FloatLe(raw[2], Float(0)) THEN Float(0) ELSE raw[2]
    IN  <<Cf, Cf_ideal>>

\* Arguments of the nozzle-flow functions: pressures in pressure units (P0 > 0),
\* the expansion ratio E and the efficiency n_cf in fixed point.
ChamberPressures == {1, 4}

ExitPressures == {0, 1, 2, 4}

ExternalPressures == {0, 1, 50}

ExpansionRatios == {Scale \div 2, Scale, 8 * Scale}

HeatRatios == {<<2, 1>>, <<3, 2>>}

NozzleEfficiencies == {Scale - 5}

\* Arguments of get_expansion_ratio: the exit pressure Pe, the chamber
\* pressures of the series P0 (positive), the critical pressure ratio in fixed
\* point (below 1).
DesignExitPressures == {1}

SeriesPressures == {1, 2, 4, 10}

CriticalPressureRatios == {Scale \div 2}

PressureSeries == UNION { [1..n -> SeriesPressures] : n \in 0..MaxSeries }

\* The state of the nozzle-flow module between calls; scipy_bound tells whether
\* the name scipy resolves in the module when get_exit_mach runs (the module
\* itself imports numpy only).
FlowIdle(scipy_bound) ==
    [unit |-> "flow", scipy_bound |-> scipy_bound, pc |-> "idle", nfev |-> 0]

FlowInit ==
    /\ bates = Idle
    /\ seg = Idle
    /\ solver \in { FlowIdle(b) : b \in BOOLEAN }
    /\ call = NoCall
    /\ hist = Idle

\* The equation of get_exit_mach has a root exactly when E >= 1: the area ratio
\* as a function of the Mach number has its minimum, 1, at Mach 1.
HasRoot(E) == E >= Scale

\* M_exit[0] as fsolve hands it back: the last iterate and fsolve's own status
\* ier (1: converged; 2: the evaluation budget maxfev is used up; 5: the
\* iteration is not making good progress).  fsolve without full_output returns
\* the iterate for every one of these and only warns when ier is not 1.
MachNumber(ier, nfev) == [converged |-> ier = 1, ier |-> ier, nfev |-> nfev]

\* P0 * (1 + 0.5 * (k - 1) * Mach_exit ** 2) ** (-k / (k - 1)): the pressure
\* that belongs to the Mach number handed in.
exit_pressure_of(k, P0, Mach_exit) == [P0 |-> P0, k |-> k, Mach_exit |-> Mach_exit]

\* get_exit_mach(k, E) is entered, from outside or from get_exit_pressure:
\* scipy.optimize.fsolve starts from the guess [10], or the name scipy is
\* unbound and the call ends there.
enter_get_exit_mach(caller, args) ==
    IF solver.scipy_bound
    THEN /\ solver' = [solver EXCEPT !.pc = "fsolve", !.nfev = 0]
         /\ call' = [op |-> caller, args |-> args, out |-> Running]
    ELSE /\ call' = [op |-> caller, args |-> args, out |-> Raise("NameError")]
         /\ UNCHANGED solver

ExitMachCall ==
    /\ solver.pc = "idle"
    /\ \E k \in HeatRatios, E \in ExpansionRatios :
           enter_get_exit_mach("get_exit_mach", <<k, E>>)
    /\ UNCHANGED <<bates, seg, hist>>

ExitPressureCall ==
    /\ solver.pc = "idle"
    /\ \E k_2ph_ex \in HeatRatios, E \in ExpansionRatios, P0 \in ChamberPressures :
           enter_get_exit_mach("get_exit_pressure", <<k_2ph_ex, E, P0>>)
    /\ UNCHANGED <<bates, seg, hist>>

\* fsolve evaluates the function once more; default maxfev bounds the count.
FsolveEvaluate ==
    /\ solver.pc = "fsolve"
    /\ solver.nfev < MaxFev
    /\ solver' = [solver EXCEPT !.nfev = @ + 1]
    /\ UNCHANGED <<bates, seg, call, hist>>

\* What the caller does with fsolve's result: get_exit_mach returns M_exit[0],
\* get_exit_pressure computes the pressure from it.
after_fsolve(M_exit) ==
    /\ call' = [call EXCEPT !.out =
                    IF call.op = "get_exit_mach"
                    THEN Return(M_exit)
                    ELSE Return(exit_pressure_of(call.args[1], call.args[3], M_exit))]
    /\ solver' = FlowIdle(solver.scipy_bound)

\* fsolve ends converged: only an equation with a root can.
FsolveConverged ==
    /\ solver.pc = "fsolve"
    /\ solver.nfev >= 1
    /\ HasRoot(call.args[2])
    /\ after_fsolve(MachNumber(1, solver.nfev))
    /\ UNCHANGED <<bates, seg, hist>>

\* fsolve ends because the iteration makes no progress (no root to go to).
FsolveNoProgress ==
    /\ solver.pc = "fsolve"
    /\ solver.nfev >= 1
    /\ ~HasRoot(call.args[2])
    /\ after_fsolve(MachNumber(5, solver.nfev))
    /\ UNCHANGED <<bates, seg, hist>>

\* fsolve ends because the evaluation budget is used up.
FsolveBudgetSpent ==
    /\ solver.pc = "fsolve"
    /\ solver.nfev = MaxFev
    /\ after_fsolve(MachNumber(2, solver.nfev))
    /\ UNCHANGED <<bates, seg, hist>>

ThrustCoeffCall ==
    /\ solver.pc = "idle"
    /\ \E P0 \in ChamberPressures, P_exit \in ExitPressures,
          P_external \in ExternalPressures, E \in ExpansionRatios,
          k \in HeatRatios, n_cf \in NozzleEfficiencies :
           call' = [op |-> "get_thrust_coeff",
                    args |-> <<P0, P_exit, P_external, E, k, n_cf>>,
                    out |-> Return(get_thrust_coeff(P0, P_exit, P_external, E,
                                                    k, n_cf))]
    /\ UNCHANGED <<bates, seg, solver, hist>>

ExpansionRatioCall ==
    /\ solver.pc = "idle"
    /\ \E Pe \in DesignExitPressures, P0 \in PressureSeries, k \in HeatRatios,
          critical_pressure_ratio \in CriticalPressureRatios :
           call' = [op |-> "get_expansion_ratio",
                    args |-> <<Pe, P0, k, critical_pressure_ratio>>,
                    out |-> Return(get_expansion_ratio(Pe, P0, k,
                                                       critical_pressure_ratio))]
    /\ UNCHANGED <<bates, seg, solver, hist>>

FlowNext ==
    \/ ExitMachCall
    \/ ExitPressureCall
    \/ FsolveEvaluate
    \/ FsolveConverged
    \/ FsolveNoProgress
    \/ FsolveBudgetSpent
    \/ ThrustCoeffCall
    \/ ExpansionRatioCall

SpecFlow == FlowInit /\ [][FlowNext]_vars

(***************************************************************************)
(* Claims about the nozzle flow.                                           *)
(***************************************************************************)

\* C3: get_thrust_coeff never returns a negative value: for any input
\* combination both returned components Cf and Cf_ideal are >= 0, a component
\* that would be negative is replaced by 0, and clamping one component does
\* not alter the other.
C3_ThrustCoeffNeverNegative ==
    call.op = "get_thrust_coeff"
    => LET raw == thrust_coeff_unclamped(call.args[1], call.args[2], call.args[3],
                                         call.args[4], call.args[5], call.args[6])
           Cf == call.out.v[1]
           Cf_ideal == call.out.v[2]
       IN  /\ FloatGe(Cf, Float(0))
           /\ FloatGe(Cf_ideal, Float(0))
           /\ Cf = (IF ~raw[1].nan /\ raw[1].v < 0 THEN Float(0) ELSE raw[1])
           /\ Cf_ideal = (IF ~raw[2].nan /\ raw[2].v < 0 THEN Float(0) ELSE raw[2])

\* The Mach number a completed call rests on (get_exit_mach returns it,
\* get_exit_pressure computes its pressure from it).
MachOf(c) == IF c.op = "get_exit_mach" THEN c.out.v ELSE c.out.v.Mach_exit

\* C9: get_exit_mach never blocks unboundedly and never returns an unconverged
\* value: the root search runs within a bounded budget, and a search that has
\* not converged makes the call fail (NonConvergenceError) instead of return,
\* so every Mach number get_exit_mach returns is converged and get_exit_pressure
\* never computes a pressure from an unconverged Mach number.
C9_ExitMachConvergedOrFails ==
    /\ solver.pc = "fsolve" => solver.nfev <= MaxFev
    /\ (call.op \in {"get_exit_mach", "get_exit_pressure"}
            /\ call.out.kind = "return")
       => MachOf(call).converged

\* The reorderings of a series.
Reorderings(s) ==
    { [i \in 1..Len(s) |-> s[q[i]]] : q \in Permutations(1..Len(s)) }

\* C14: get_expansion_ratio(Pe, P0, k, critical_pressure_ratio) computes one
\* E[i] per element of the P0 series, the closed form when Pe / P0[i] <=
\* critical_pressure_ratio (equality included) and exactly 1 otherwise, and
\* returns the arithmetic mean of the E[i]; so a series in which every timestep
\* has Pe / P0[i] > critical_pressure_ratio yields exactly 1, and the result
\* does not depend on the order of the series.
C14_ExpansionRatioMean ==
    (call.op = "get_expansion_ratio" /\ call.args[2] # <<>>)
    => LET Pe == call.args[1]
           P0 == call.args[2]
           k == call.args[3]
           cpr == call.args[4]
       IN  /\ call.out.kind = "return"
           /\ (\A i \in 1..Len(P0) : Scale * Pe > cpr * P0[i])
                => call.out.v = fl_from_int(1)
           /\ \A s \in Reorderings(P0) :
                 get_expansion_ratio(Pe, s, k, cpr) = call.out.v

(***************************************************************************)
(*                    OPERATIONAL CORRECTION FACTORS                       *)
(***************************************************************************)
(* get_operational_correction_factors.  Its arguments are carried in one   *)
(* record: P0 and P_external in pressure units, P0_psi in psi, the         *)
(* critical pressure ratio in fixed point, structure.D_throat in units of  *)
(* 0.1 mm (so D_throat / 0.0254 < 1 is D_throat < 254), propellant.M_ch    *)
(* in hundredths.  The factors n_bl and n_tp of the active regime are      *)
(* products of exponentials and fractional powers; the model carries them  *)
(* as the operands the code feeds the formula (the row of constants it     *)
(* selected among them), and C7, the value of the expression at lines      *)
(* 108-109, is drawn from the values that separate its bands.              *)
(***************************************************************************)

\* The divisors of the inch conversions, in units of 0.1 mm: 0.0254 and the
\* 0.0245 of line 125.
Inch == 254

InchLine125 == 245

\* The chamber pressure from which kinetic losses are counted, in psi.
KineticThresholdPsi == 200

\* The local names C3, C5, C6 when no branch has assigned them.
Unbound == <<"unbound">>

\* Lines 110-135: the constants <<C3, C4, C5, C6>>, in hundredths, or Unbound
\* when no branch of the if/elif chains assigns them.
select_constants(M_ch, D_throat, C7) ==
    IF 10 * 100 >= 9 * M_ch                      \* 1 / M_ch >= 0.9
    THEN IF D_throat < Inch                      \* D_throat / 0.0254 < 1
         THEN <<900, 50, 100, 100>>
         ELSE IF Inch <= D_throat /\ D_throat < 2 * Inch
         THEN <<900, 50, 100, 80>>
         ELSE IF D_throat >= 2 * Inch
         THEN IF C7 < 4 * Scale THEN <<1340, 50, 80, 80>>
              ELSE IF 4 * Scale <= C7 /\ C7 <= 8 * Scale THEN <<1020, 50, 80, 40>>
              ELSE IF C7 > 8 * Scale THEN <<758, 50, 80, 33>>
              ELSE Unbound
         ELSE Unbound
    ELSE IF 10 * 100 < 9 * M_ch                  \* 1 / M_ch < 0.9
    THEN IF D_throat < InchLine125               \* D_throat / 0.0245 < 1
         THEN <<4450, 100, 80, 80>>
         ELSE IF Inch <= D_throat /\ D_throat < 2 * Inch
         THEN <<3040, 100, 80, 40>>
         ELSE IF D_throat >= 2 * Inch
         THEN IF C7 < 4 * Scale THEN <<4450, 100, 80, 80>>
              ELSE IF 4 * Scale <= C7 /\ C7 <= 8 * Scale THEN <<3040, 100, 80, 40>>
              ELSE IF C7 > 8 * Scale THEN <<2520, 100, 80, 33>>
              ELSE Unbound
         ELSE Unbound
    ELSE Unbound

\* A loss factor: exactly 0, or the value of its formula on these operands.
ZeroFactor == [zero |-> TRUE, formula |-> "none", operands |-> <<>>]

FormulaFactor(formula, operands) ==
    [zero |-> FALSE, formula |-> formula, operands |-> operands]

\* Lines 95-99: the kinetic loss, in fixed point.
kinetic_loss(a) ==
    IF a.P0_psi >= KineticThresholdPsi
    THEN (333 * 20 * Scale * a.Isp_frozen) \div (a.Isp_shifting * a.P0_psi)
    ELSE 0

\* Lines 104-106: n_bl of the active regime.
boundary_layer_loss(a) ==
    FormulaFactor("n_bl", <<a.C1, a.C2, a.P0_psi, a.D_throat, a.t, a.Exp_ratio>>)

\* Lines 136-137: n_tp of the active regime, from the selected constants.
two_phase_loss(a, row) ==
    FormulaFactor("n_tp", <<row, a.qsi_ch, a.C7, a.P0_psi, a.Exp_ratio, a.D_throat>>)

\* A variant of get_operational_correction_factors that computes n_bl ahead
\* of the regime test and zeroes only n_tp outside the active regime.
get_operational_correction_factors_bl_always(a) ==
    LET n_kin == kinetic_loss(a)
        row == select_constants(a.M_ch, a.D_throat, a.C7)
    IN  IF a.P_external * Scale <= a.critical_pressure_ratio * a.P0
        THEN IF row = Unbound
             THEN Raise("UnboundLocalError")
             ELSE Return(<<n_kin, two_phase_loss(a, row), boundary_layer_loss(a)>>)
        ELSE Return(<<n_kin, ZeroFactor, boundary_layer_loss(a)>>)

\* get_operational_correction_factors: <<n_kin, n_tp, n_bl>>, or the exception
\* line 136 raises when it reads constants no branch assigned.  The test
\* P_external / P0 <= critical_pressure_ratio is taken exactly (P0 > 0).
get_operational_correction_factors(a) ==
    LET n_kin == kinetic_loss(a)
        row == select_constants(a.M_ch, a.D_throat, a.C7)
    IN  IF a.P_external * Scale <= a.critical_pressure_ratio * a.P0
        THEN IF row = Unbound
             THEN Raise("UnboundLocalError")
             ELSE Return(<<n_kin, two_phase_loss(a, row), boundary_layer_loss(a)>>)
        ELSE Return(<<n_kin, ZeroFactor, ZeroFactor>>)

\* The arguments drawn: around every threshold the code tests.
CorrArguments ==
    { [P0 |-> P0, P_external |-> 1, P0_psi |-> P0_psi,
       critical_pressure_ratio |-> Scale \div 2,
       Isp_frozen |-> 150, Isp_shifting |-> 160, qsi_ch |-> Scale \div 2,
       M_ch |-> M_ch, D_throat |-> D_throat, C1 |-> 1, C2 |-> 1,
       Exp_ratio |-> 8 * Scale, V0 |-> 1, t |-> 1, C7 |-> C7] :
        P0 \in {1, 2, 4},
        P0_psi \in {KineticThresholdPsi - 1, KineticThresholdPsi,
                    2 * KineticThresholdPsi},
        M_ch \in {111, 112},
        D_throat \in {InchLine125 - 1, InchLine125, Inch - 1, Inch,
                      2 * Inch - 1, 2 * Inch},
        C7 \in {4 * Scale - 1, 4 * Scale, 8 * Scale, 8 * Scale + 1} }

CorrInit ==
    /\ bates = Idle
    /\ seg = Idle
    /\ solver = Idle
    /\ call = NoCall
    /\ hist = Idle

CorrectionFactorsCall ==
    \E a \in CorrArguments :
        /\ call' = [op |-> "get_operational_correction_factors", args |-> <<a>>,
                    out |-> get_operational_correction_factors(a)]
        /\ UNCHANGED <<bates, seg, solver, hist>>

CorrNext == CorrectionFactorsCall

SpecCorr == CorrInit /\ [][CorrNext]_vars

(***************************************************************************)
(* Claims about the correction factors.                                    *)
(***************************************************************************)

\* The regime in which the two-phase and boundary-layer losses are computed:
\* P_external / P0 <= critical_pressure_ratio.
ActiveRegime(a) == a.P_external * Scale <= a.critical_pressure_ratio * a.P0

\* C4: whenever P_external / P0 > critical_pressure_ratio the returned n_tp and
\* n_bl are both exactly 0, whatever the throat diameter, M_ch, C7 or time; the
\* returned n_kin does not depend on that condition: it is 0 when P0_psi < 200
\* and 33.3 * 200 * (Isp_frozen / Isp_shifting) / P0_psi otherwise.
C4_LossesZeroOutsideRegime ==
    (call.op = "get_operational_correction_factors" /\ call.out.kind = "return")
    => LET a == call.args[1]
       IN  /\ ~ActiveRegime(a)
              => (call.out.v[2] = ZeroFactor /\ call.out.v[3] = ZeroFactor)
           /\ call.out.v[1] =
                (IF a.P0_psi < 200 THEN 0
                 ELSE (6660 * Scale * a.Isp_frozen) \div (a.Isp_shifting * a.P0_psi))

\* C4's case: a call outside the active regime at a chamber pressure that has
\* kinetic losses has returned.
C4_Witness ==
    /\ call.op = "get_operational_correction_factors"
    /\ call.out.kind = "return"
    /\ ~ActiveRegime(call.args[1])
    /\ call.args[1].P0_psi >= 200
    /\ call.out.v[1] > 0
    /\ call.out.v[2] = ZeroFactor
    /\ call.out.v[3] = ZeroFactor

\* C5: in the active regime, for every positive throat diameter, every M_ch
\* and every C7, exactly one row of constants (C3, C4, C5, C6) is selected and
\* a complete (n_kin, n_tp, n_bl) is returned: no input is left without
\* constants.
C5_ConstantsAlwaysSelected ==
    (call.op = "get_operational_correction_factors" /\ ActiveRegime(call.args[1]))
    => /\ call.out.kind = "return"
       /\ ~call.out.v[2].zero
       /\ ~call.out.v[3].zero

(***************************************************************************)
(*                          FMM GRAIN SEGMENT                              *)
(***************************************************************************)
(* FMMGrainSegment is abstract: the arrays its subclasses build are        *)
(* carried by what the methods of this class depend on, their resolution   *)
(* (the map_dim they were built at).  A length of the segment is an        *)
(* integer number of length units; a quotient is carried as the fraction   *)
(* [num, den] the code's expression denotes.                               *)
(***************************************************************************)

\* The resolution validate() asserts, and the value it assigns afterwards.
MinMapDim == 100

ResetMapDim == 10

None == [is_none |-> TRUE]

IsNone(x) == x.is_none

\* A numpy array of map_dim by map_dim cells.
Array(name, map_dim) == [is_none |-> FALSE, array |-> name, map_dim |-> map_dim]

Fraction(num, den) == [num |-> num, den |-> den]

\* What a method call leaves: the object, the outcome, and the cached stages
\* it computed on the way (in order).
Result(self, out, computed) == [self |-> self, out |-> out, computed |-> computed]

\* Constructor arguments.
MapDims == {MinMapDim - 1, MinMapDim, 2 * MinMapDim}

FMMLengths == {0, 2}

FMMOuterDiameters == {2, 3}

Values == 0..MaxValue

\* FMMGrainSegment.__init__: map_dim and the empty caches, then the fields
\* GrainSegment.__init__ stores.
FMMGrainSegment(map_dim, length, outer_diameter, spacing, inhibited_ends) ==
    [map_dim |-> map_dim,
     maps |-> None, mask |-> None, masked_face |-> None,
     regression_map |-> None, face_area_interp_func |-> None,
     length |-> length, outer_diameter |-> outer_diameter,
     spacing |-> spacing, inhibited_ends |-> inhibited_ends]

FMMInit ==
    /\ bates = Idle
    /\ solver = Idle
    /\ call = NoCall
    /\ \E map_dim \in MapDims, length \in FMMLengths,
          outer_diameter \in FMMOuterDiameters :
           /\ seg = FMMGrainSegment(map_dim, length, outer_diameter, 0, 0)
           /\ hist = [constructed_map_dim |-> map_dim, validated |-> FALSE,
                      computed |-> [mask |-> 0, masked_face |-> 0,
                                    regression_map |-> 0],
                      source |-> None]

\* GrainSegment.validate (super().validate()): the assertions on the base
\* dimensions hold.
base_dimensions_valid(self) ==
    /\ self.length > 0
    /\ self.outer_diameter > 0
    /\ self.spacing >= 0
    /\ self.inhibited_ends \in {0, 1, 2}

\* A variant of validate_body whose assertion is map_dim > 100.
validate_body_strict(self) ==
    IF ~base_dimensions_valid(self)
    THEN Result(self, Raise("AssertionError"), <<>>)
    ELSE IF ~(self.map_dim > MinMapDim)
    THEN Result(self, Raise("AssertionError"), <<>>)
    ELSE Result([self EXCEPT !.map_dim = ResetMapDim], Return(None), <<>>)

\* The body of FMMGrainSegment.validate: super().validate(), the assertion
\* map_dim >= 100, then the assignment map_dim = 10.
validate_body(self) ==
    IF ~base_dimensions_valid(self)
    THEN Result(self, Raise("AssertionError"), <<>>)
    ELSE IF ~(self.map_dim >= MinMapDim)
    THEN Result(self, Raise("AssertionError"), <<>>)
    ELSE Result([self EXCEPT !.map_dim = ResetMapDim], Return(None), <<>>)

\* The decorator validate_assertions(exception=...): an AssertionError of the
\* decorated method is raised as the given exception.
validate_assertions(exception, result) ==
    IF result.out.kind = "raise" /\ result.out.v = "AssertionError"
    THEN [result EXCEPT !.out = Raise(exception)]
    ELSE result

\* FMMGrainSegment.validate, decorated.
validate(self) == validate_assertions("GrainGeometryError", validate_body(self))

\* Arguments of normalize and denormalize: the floats n / 4 up to MaxValue.
FloatValues == { fl_round(n, 4, 0) : n \in 0..(4 * MaxValue) }

\* normalize: value / (0.5 * outer_diameter), one rounded division.
normalize(self, value) ==
    fl_div(value, fl_half(fl_from_int(self.outer_diameter)))

\* denormalize: (value / 2) * outer_diameter, one rounded product.
denormalize(self, value) ==
    fl_mul(fl_half(value), fl_from_int(self.outer_diameter))

\* map_to_area: outer_diameter ** 2 * (value / map_dim ** 2).
map_to_area(self, value) ==
    Fraction(self.outer_diameter * self.outer_diameter * value,
             self.map_dim * self.map_dim)

\* map_to_length: outer_diameter * (value / map_dim).
map_to_length(self, value) == Fraction(self.outer_diameter * value, self.map_dim)

\* get_maps (abstract): the coordinate grids at the current map_dim.
get_maps(self) == Array("maps", self.map_dim)

\* get_initial_face_map (abstract): the face map at the current map_dim.
get_initial_face_map(self) == Array("initial_face_map", self.map_dim)

\* get_mask without its cache: the mask is computed on every request and not
\* stored.
get_mask_uncached(self) ==
    Result(self, Return(Array("mask", get_maps(self).map_dim)), <<"mask">>)

\* get_mask: computed from get_maps() on the first request, cached.
get_mask(self) ==
    IF IsNone(self.mask)
    THEN LET mask == Array("mask", get_maps(self).map_dim)
         IN  Result([self EXCEPT !.mask = mask], Return(mask), <<"mask">>)
    ELSE Result(self, Return(self.mask), <<>>)

\* get_empty_face_map: np.ones_like(get_maps()[0]).
get_empty_face_map(self) == Array("ones", get_maps(self).map_dim)

\* get_masked_face: np.ma.MaskedArray(get_initial_face_map(), get_mask()) on the
\* first request, cached; numpy refuses a mask of another shape than the data.
get_masked_face(self) ==
    IF IsNone(self.masked_face)
    THEN LET face == get_initial_face_map(self)
             mask == get_mask(self)
             masked_face == Array("masked_face", face.map_dim)
         IN  IF face.map_dim # mask.out.v.map_dim
             THEN Result(mask.self, Raise("MaskError"), mask.computed)
             ELSE Result([mask.self EXCEPT !.masked_face = masked_face],
                         Return(masked_face),
                         mask.computed \o <<"masked_face">>)
    ELSE Result(self, Return(self.masked_face), <<>>)

\* get_cell_size: 1 / map_dim.
get_cell_size(self) == Fraction(1, self.map_dim)

\* get_regression_map: skfmm.distance(get_masked_face(), dx=get_cell_size()) * 2
\* on the first request, cached: the map keeps the grid of the masked face and
\* the cell size it was solved with.
get_regression_map(self) ==
    IF IsNone(self.regression_map)
    THEN LET face == get_masked_face(self)
             dx == get_cell_size(face.self)
         IN  IF face.out.kind = "raise"
             THEN face
             ELSE LET regression_map ==
                          [is_none |-> FALSE, array |-> "regression_map",
                           map_dim |-> face.out.v.map_dim, dx |-> dx]
                  IN  Result([face.self EXCEPT !.regression_map = regression_map],
                             Return(regression_map),
                             face.computed \o <<"regression_map">>)
    ELSE Result(self, Return(self.regression_map), <<>>)

\* get_web_thickness: denormalize(np.amax(get_regression_map())), carried as
\* the map whose maximum is taken and the diameter it is denormalized with.
get_web_thickness(self) ==
    LET map == get_regression_map(self)
    IN  IF map.out.kind = "raise"
        THEN map
        ELSE Result(map.self,
                    Return([amax_of |-> map.out.v,
                            outer_diameter |-> map.self.outer_diameter]),
                    map.computed)

\* get_contours: measure.find_contours(get_regression_map(), map_dist), carried
\* as the map and the level the contours are taken at.
get_contours(self, web_distance) ==
    LET map_dist == normalize(self, fl_from_int(web_distance))
        map == get_regression_map(self)
    IN  IF map.out.kind = "raise"
        THEN map
        ELSE Result(map.self,
                    Return([contours_of |-> map.out.v, level |-> map_dist]),
                    map.computed)

\* How often stage occurs in the stages a call computed.
Count(computed, stage) ==
    Cardinality({ i \in DOMAIN computed : computed[i] = stage })

\* A value that is not None.
Some(v) == [is_none |-> FALSE, v |-> v]

\* A method call on the segment, as one step: the object and the outcome it
\* leaves.  The call's arguments start with the object before the call.
\* source is None, or the argument of the previous call when this call's
\* argument is that call's result.
MethodCallFrom(op, args, r, source) ==
    /\ seg' = r.self
    /\ call' = [op |-> op, args |-> <<seg>> \o args, out |-> r.out]
    /\ hist' = [hist EXCEPT
           !.validated = @ \/ (op = "validate" /\ r.out.kind = "return"),
           !.computed = [stage \in DOMAIN @ |-> @[stage] + Count(r.computed, stage)],
           !.source = source]
    /\ UNCHANGED <<bates, solver>>

MethodCall(op, args, r) == MethodCallFrom(op, args, r, None)

ValidateCall == MethodCall("validate", <<>>, validate(seg))

\* normalize(value), of a fresh value or of the result of a denormalize call
\* that has just returned (a result is passed on once: the round trips are
\* of two calls).
NormalizeCall ==
    \/ \E value \in FloatValues :
           MethodCall("normalize", <<value>>,
                      Result(seg, Return(normalize(seg, value)), <<>>))
    \/ /\ call.op = "denormalize"
       /\ IsNone(hist.source)
       /\ MethodCallFrom("normalize", <<call.out.v>>,
                         Result(seg, Return(normalize(seg, call.out.v)), <<>>),
                         Some(call.args[2]))

\* denormalize(value), of a fresh value or of the result of a normalize call
\* that has just returned.
DenormalizeCall ==
    \/ \E value \in FloatValues :
           MethodCall("denormalize", <<value>>,
                      Result(seg, Return(denormalize(seg, value)), <<>>))
    \/ /\ call.op = "normalize"
       /\ IsNone(hist.source)
       /\ MethodCallFrom("denormalize", <<call.out.v>>,
                         Result(seg, Return(denormalize(seg, call.out.v)), <<>>),
                         Some(call.args[2]))

MapToAreaCall ==
    \E value \in Values :
        MethodCall("map_to_area", <<value>>,
                   Result(seg, Return(map_to_area(seg, value)), <<>>))

MapToLengthCall ==
    \E value \in Values :
        MethodCall("map_to_length", <<value>>,
                   Result(seg, Return(map_to_length(seg, value)), <<>>))

GetMaskCall == MethodCall("get_mask", <<>>, get_mask(seg))

GetEmptyFaceMapCall ==
    MethodCall("get_empty_face_map", <<>>,
               Result(seg, Return(get_empty_face_map(seg)), <<>>))

GetMaskedFaceCall == MethodCall("get_masked_face", <<>>, get_masked_face(seg))

GetCellSizeCall ==
    MethodCall("get_cell_size", <<>>, Result(seg, Return(get_cell_size(seg)), <<>>))

GetRegressionMapCall ==
    MethodCall("get_regression_map", <<>>, get_regression_map(seg))

GetWebThicknessCall ==
    MethodCall("get_web_thickness", <<>>, get_web_thickness(seg))

GetContoursCall ==
    \E web_distance \in Values :
        MethodCall("get_contours", <<web_distance>>, get_contours(seg, web_distance))

FMMNext ==
    \/ ValidateCall
    \/ NormalizeCall
    \/ DenormalizeCall
    \/ MapToAreaCall
    \/ MapToLengthCall
    \/ GetMaskCall
    \/ GetEmptyFaceMapCall
    \/ GetMaskedFaceCall
    \/ GetCellSizeCall
    \/ GetRegressionMapCall
    \/ GetWebThicknessCall
    \/ GetContoursCall

SpecFMM == FMMInit /\ [][FMMNext]_vars

(***************************************************************************)
(* Claims about the FMM grain segment.                                     *)
(***************************************************************************)

\* C6: the resolution invariant map_dim >= 100 holds in every state reachable
\* after validate() has succeeded: whatever calls follow, map_dim is still
\* >= 100 and equal to the value the segment was constructed with.
C6_MapDimKeptAfterValidate ==
    hist.validated
    => /\ seg.map_dim >= 100
       /\ seg.map_dim = hist.constructed_map_dim

\* The cache fields of a segment.
Caches(self) == <<self.mask, self.masked_face, self.regression_map>>

\* C7: validate() on a segment whose map_dim is < 100 fails with
\* GrainGeometryError (not a bare AssertionError) and leaves map_dim and the
\* cache fields unchanged; on a segment with map_dim >= 100 and valid base
\* dimensions it does not fail.
C7_ValidateRejectsLowResolution ==
    call.op = "validate"
    => LET before == call.args[1]
       IN  /\ before.map_dim < 100
              => /\ call.out.kind = "raise"
                 /\ call.out.v = "GrainGeometryError"
                 /\ seg.map_dim = before.map_dim
                 /\ Caches(seg) = Caches(before)
           /\ (before.map_dim >= 100 /\ base_dimensions_valid(before))
              => call.out.kind = "return"

\* C7's case: validate() has just failed on a segment with valid base
\* dimensions, a resolution below 100 and a cached mask.
C7_Witness ==
    /\ call.op = "validate"
    /\ base_dimensions_valid(call.args[1])
    /\ call.args[1].map_dim < 100
    /\ ~IsNone(call.args[1].mask)
    /\ call.out.kind = "raise"
    /\ call.out.v = "GrainGeometryError"
    /\ seg = call.args[1]

\* C8: no operation mutates a geometry field after a cached value has been
\* read: in every reachable state where regression_map is not None, the cell
\* size 1 / map_dim and the map_dim that map_to_area and map_to_length use
\* are those the cached regression map was computed with.
C8_GeometryFixedOnceCached ==
    ~IsNone(seg.regression_map)
    => /\ get_cell_size(seg) = seg.regression_map.dx
       /\ seg.map_dim = seg.regression_map.map_dim

\* C12: for a segment with a positive outer_diameter, normalize and
\* denormalize are exact inverses: denormalize(normalize(x)) == x and
\* normalize(denormalize(y)) == y for every value, and neither call changes a
\* field of the segment.
C12_NormalizeDenormalizeInverse ==
    call.op \in {"normalize", "denormalize"}
    => /\ seg = call.args[1]
       /\ ~IsNone(hist.source) => call.out = Return(hist.source.v)

\* The cached stages of the pipeline, in the order they build on each other.
Stages == <<"mask", "masked_face", "regression_map">>

\* op is the getter of a stage that was already cached in the object self the
\* call started from.
ServedFromCache(c, op, stage) ==
    /\ c.op = op
    /\ ~IsNone(c.args[1][stage])

\* C13: each stage of the FMM pipeline is memoized the first time it is
\* requested: over any sequence of calls on one instance the mask, the masked
\* face and the eikonal solve are each computed at most once, a later request
\* returns the cached object (and changes nothing), and a cached stage has its
\* prerequisite stages cached: regression_map non-None implies masked_face
\* non-None implies mask non-None.
C13_StagesMemoizedOnce ==
    seg # Idle
    => /\ \A i \in DOMAIN Stages : hist.computed[Stages[i]] <= 1
       /\ ~IsNone(seg.regression_map) => ~IsNone(seg.masked_face)
       /\ ~IsNone(seg.masked_face) => ~IsNone(seg.mask)
       /\ \A i \in DOMAIN Stages :
             ServedFromCache(call, "get_" \o Stages[i], Stages[i])
             => /\ call.out = Return(call.args[1][Stages[i]])
                /\ seg = call.args[1]

\* C13's case: the regression map has been requested again after it was
\* solved, and the whole pipeline has run exactly once.
C13_Witness ==
    /\ seg # Idle
    /\ ServedFromCache(call, "get_regression_map", "regression_map")
    /\ call.out = Return(seg.regression_map)
    /\ \A i \in DOMAIN Stages : hist.computed[Stages[i]] = 1

\* C16: validate() is repeatable: a segment on which validate() has succeeded
\* once passes validate() again on every later call (the outcome depends on
\* the constructor arguments only, not on the calls made before).
C16_ValidateRepeatable ==
    (call.op = "validate" /\ hist.validated) => call.out.kind = "return"

(***************************************************************************)
(* The whole model: one of the components is under way.                    *)
(***************************************************************************)
Init == BatesInit \/ FlowInit \/ CorrInit \/ FMMInit

Next ==
    \/ (bates # Idle /\ BatesNext)
    \/ (solver # Idle /\ FlowNext)
    \/ (bates = Idle /\ solver = Idle /\ seg = Idle /\ CorrNext)
    \/ (seg # Idle /\ FMMNext)

Spec == Init /\ [][Next]_vars

=============================================================================
